---- MODULE Spec2Model ----
(***************************************************************************)
(* Model of the Matrix Knowledge Module packager (packager/create_module.py)*)
(* and loader (loader/download.py).                                        *)
(*                                                                         *)
(* The state is the working directory the two programs share (the .mkm     *)
(* archives and the temp_<name> scratch directories), the loader's         *)
(* installed_modules registry, and the position and locals of every        *)
(* operation in flight.  Operations advance one source statement group at  *)
(* a time.  Spec schedules them as the asyncio event loop does (an         *)
(* operation runs uninterrupted except while it awaits the download);      *)
(* SpecConc lets operations of separate threads or processes interleave    *)
(* at every file-system step.                                              *)
(***************************************************************************)
EXTENDS Naturals, Integers, Sequences, FiniteSets, TLC

VARIABLES
    archives,           \* name -> the file <name>.mkm
    scratch,            \* name -> the directory temp_<name>
    installed_modules,  \* MatrixKnowledgeLoader.installed_modules
    clock,              \* asyncio event-loop time: one tick per operation started
    ops,                \* operation slot -> its position, locals and outcome
    scheduler,          \* "asyncio": one event loop; "threads": free interleaving
    faults,             \* file-system failures met so far
    codecIn,            \* entity list handed to _create_embeddings_data
    codecOut            \* what _create_embeddings_data returned for it

vars == <<archives, scratch, installed_modules, clock, ops, scheduler, faults, codecIn, codecOut>>

(***************************************************************************)
(* Bounds                                                                  *)
(***************************************************************************)
MaxClock == 2       \* operations started in one run
MaxFaults == 1      \* file-system failures in one run
MaxEntities == 2    \* longest entity list handed to the codec
MaxObs == 2         \* most observations of one entity

Names == {"a", "b"}         \* module / skill names
Ops == {1, 2}               \* operation slots

(***************************************************************************)
(* Files and their contents                                                *)
(***************************************************************************)
PackagerEntries == {"metadata.json", "embeddings.pkl", "sources.json", "manifest.json"}
FileNames == PackagerEntries \cup {"extra.pkl"}

Absent == [kind |-> "absent"]       \* no such file
Bad == [kind |-> "bad"]             \* truncated or not parseable

EmptyFiles == [f \in FileNames |-> Absent]
NoDir == [exists |-> FALSE, files |-> EmptyFiles]
NoArchive == [exists |-> FALSE, ok |-> FALSE, files |-> EmptyFiles]

Present(files) == {f \in FileNames : files[f] # Absent}

(***************************************************************************)
(* Entities (dicts: a key may be missing) and the embeddings codec         *)
(***************************************************************************)
Get(d, key, default) == IF key \in DOMAIN d THEN d[key] ELSE default

ObsTexts == {"x", "yy"}
StrLen(s) == CASE s = "x" -> 1 [] s = "yy" -> 2 [] OTHER -> 0

SeqsUpTo(S, n) == UNION {[1..k -> S] : k \in 0..n}

EntityHeaders ==
    { [name |-> "Sample", entityType |-> "Tool_Reference"],
      [name |-> "Other"],
      [name |-> "Other", entityType |-> "Active_Project"],
      [entityType |-> "Activity_Log"] }

WithObservations(h, obs) == [k \in DOMAIN h \cup {"observations"} |->
                                IF k = "observations" THEN obs ELSE h[k]]

Entities == EntityHeaders
            \cup {WithObservations(h, obs) : h \in EntityHeaders, obs \in SeqsUpTo(ObsTexts, MaxObs)}

EmptyPayload == [chunks |-> <<>>, metadata |-> <<>>, entity_map |-> [n \in {} |-> "unknown"], chunk_id |-> 0]

\* faulty variant of AppendChunk: the metadata record is numbered after the increment
AppendChunkBroken(data, obs, entity_name, entity_type) ==
    [data EXCEPT !.chunks = Append(@, [id |-> data.chunk_id, text |-> obs,
                                       entity |-> entity_name, type |-> entity_type]),
                 !.metadata = Append(@, [chunk_id |-> data.chunk_id + 1, entity_name |-> entity_name,
                                         entity_type |-> entity_type, char_count |-> StrLen(obs)]),
                 !.chunk_id = @ + 1]

\* create_module.py 139-153: one observation becomes one chunk and one metadata record
AppendChunk(data, obs, entity_name, entity_type) ==
    [data EXCEPT !.chunks = Append(@, [id |-> data.chunk_id, text |-> obs,
                                       entity |-> entity_name, type |-> entity_type]),
                 !.metadata = Append(@, [chunk_id |-> data.chunk_id, entity_name |-> entity_name,
                                         entity_type |-> entity_type, char_count |-> StrLen(obs)]),
                 !.chunk_id = @ + 1]

RECURSIVE EncodeObservations(_, _, _, _)
EncodeObservations(data, observations, entity_name, entity_type) ==
    IF observations = <<>> THEN data
    ELSE EncodeObservations(AppendChunk(data, Head(observations), entity_name, entity_type),
                            Tail(observations), entity_name, entity_type)

\* faulty variant of EncodeEntity: the entity_map assignment sits inside the
\* observation loop, so an entity without observations gets no key
EncodeEntityIndented(data, entity) ==
    LET entity_name == Get(entity, "name", "unknown")
        entity_type == Get(entity, "entityType", "unknown")
        obs == Get(entity, "observations", <<>>)
        d == EncodeObservations(data, obs, entity_name, entity_type)
    IN  IF obs = <<>> THEN d
        ELSE [d EXCEPT !.entity_map =
                [n \in DOMAIN d.entity_map \cup {entity_name} |->
                    IF n = entity_name THEN entity_type ELSE d.entity_map[n]]]

\* create_module.py 134-155: one entity
EncodeEntity(data, entity) ==
    LET entity_name == Get(entity, "name", "unknown")
        entity_type == Get(entity, "entityType", "unknown")
        d == EncodeObservations(data, Get(entity, "observations", <<>>), entity_name, entity_type)
    IN  [d EXCEPT !.entity_map =
            [n \in DOMAIN d.entity_map \cup {entity_name} |->
                IF n = entity_name THEN entity_type ELSE d.entity_map[n]]]

RECURSIVE EncodeEntities(_, _)
EncodeEntities(data, entities) ==
    IF entities = <<>> THEN data
    ELSE EncodeEntities(EncodeEntity(data, Head(entities)), Tail(entities))

_create_embeddings_data(entities) ==
    LET d == EncodeEntities(EmptyPayload, entities)
    IN  [kind |-> "embeddings", chunks |-> d.chunks, metadata |-> d.metadata,
         entity_map |-> d.entity_map]

(***************************************************************************)
(* Archive contents                                                        *)
(***************************************************************************)
LoadStep(file) == [action |-> "load_embeddings", file |-> file]
RegisterStep == [action |-> "register_metadata", file |-> "metadata.json"]
VerifyStep == [action |-> "verify_integrity", check |-> "hash"]
UnknownStep == [action |-> "warm_cache"]
NoActionStep == [file |-> "embeddings.pkl"]

Manifest(steps) == [kind |-> "manifest", install_steps |-> steps]
ManifestNoSteps == [kind |-> "manifest"]

\* faulty variant of PackagerManifest: the metadata is registered before the load
PackagerManifestReordered == Manifest(<<RegisterStep, LoadStep("embeddings.pkl"), VerifyStep>>)

\* create_module.py 68-78
PackagerManifest == Manifest(<<LoadStep("embeddings.pkl"), RegisterStep, VerifyStep>>)

SamplePayload == _create_embeddings_data(<<[name |-> "Sample", entityType |-> "Tool_Reference",
                                            observations |-> <<"x", "yy">>]>>)

ExternalMetadata == [kind |-> "metadata", name |-> "ext", description |-> "d",
                     skills_provided |-> {}]
MetadataNoSkills == [kind |-> "metadata", name |-> "ext", description |-> "d"]

Archive(manifest, metadata, embeddings, extra) ==
    [exists |-> TRUE, ok |-> TRUE,
     files |-> [f \in FileNames |->
                  CASE f = "manifest.json" -> manifest
                    [] f = "metadata.json" -> metadata
                    [] f = "embeddings.pkl" -> embeddings
                    [] f = "extra.pkl" -> extra
                    [] OTHER -> Absent]]

NotATarball == [exists |-> TRUE, ok |-> FALSE, files |-> EmptyFiles]

\* the files that may lie at <name>.mkm before the first operation
ArchiveInputs ==
    { NoArchive,
      NotATarball,
      Archive(PackagerManifest, ExternalMetadata, SamplePayload, Absent),
      Archive(Absent, ExternalMetadata, SamplePayload, Absent),
      Archive(Bad, ExternalMetadata, SamplePayload, Absent),
      Archive(ManifestNoSteps, ExternalMetadata, SamplePayload, Absent),
      Archive(PackagerManifest, MetadataNoSkills, SamplePayload, Absent),
      Archive(Manifest(<<RegisterStep, LoadStep("extra.pkl"), VerifyStep>>),
              ExternalMetadata, Absent, Absent),
      Archive(Manifest(<<RegisterStep, LoadStep("extra.pkl"), VerifyStep>>),
              ExternalMetadata, Absent, Bad),
      Archive(Manifest(<<RegisterStep, LoadStep("extra.pkl"), VerifyStep>>),
              ExternalMetadata, Absent, SamplePayload),
      Archive(Manifest(<<RegisterStep, UnknownStep, VerifyStep>>),
              ExternalMetadata, Absent, Absent),
      Archive(Manifest(<<UnknownStep, NoActionStep, RegisterStep>>),
              ExternalMetadata, SamplePayload, Absent) }

(***************************************************************************)
(* Operations                                                              *)
(***************************************************************************)
IdleOp == [kind |-> "none", name |-> "a", url |-> FALSE, pc |-> "idle",
           manifest |-> Absent, idx |-> 0, log |-> <<>>, loaded |-> 0,
           install_success |-> FALSE, result |-> "none",
           regBefore |-> <<>>, scratchAtReturn |-> FALSE,
           archiveHadManifest |-> FALSE, reachedSteps |-> FALSE,
           madeScratch |-> FALSE, extracted |-> FALSE, destWritten |-> FALSE, verified |-> "none", replaced |-> NoArchive,
           entities |-> <<>>, archived |-> {}]

\* an operation the event loop cannot switch away from: it awaits only in the download
Running(j) == ops[j].pc \notin {"idle", "done", "download"}
Scheduled(i) == scheduler = "asyncio" => \A j \in Ops \ {i} : ~Running(j)

Op(i) == ops[i]
Free(i) == ops[i].pc \in {"idle", "done"}
\* a new operation takes the first slot that holds none in flight
FirstFree(i) == Free(i) /\ \A j \in Ops : j < i => ~Free(j)
SetOp(i, o) == ops' = [ops EXCEPT ![i] = o]

\* Path.mkdir(exist_ok=True): an existing directory keeps its files
Mkdir(dir) == [dir EXCEPT !.exists = TRUE]

\* shutil.rmtree
Rmtree(dir) == NoDir

(***************************************************************************)
(* loader/download.py: download_skill                                      *)
(***************************************************************************)
\* download.py 23-29: the call
DownloadSkill(i, n, u) ==
    /\ FirstFree(i)
    /\ Scheduled(i)
    /\ clock < MaxClock
    /\ clock' = clock + 1
    /\ SetOp(i, [IdleOp EXCEPT !.kind = "install", !.name = n, !.url = u,
                               !.pc = "search", !.regBefore = installed_modules])
    /\ UNCHANGED <<archives, scratch, installed_modules, faults, scheduler, codecIn, codecOut>>

\* download.py 33-41: local lookup, or start of the download
Search(i) ==
    LET o == Op(i) IN
    /\ o.pc = "search"
    /\ Scheduled(i)
    /\ IF o.url
         THEN SetOp(i, [o EXCEPT !.pc = "download"])
         ELSE IF archives[o.name].exists
                THEN SetOp(i, [o EXCEPT !.pc = "verify"])
                ELSE SetOp(i, [o EXCEPT !.pc = "done", !.result = "False",
                                        !.scratchAtReturn = scratch[o.name].exists])
    /\ UNCHANGED <<archives, scratch, installed_modules, clock, faults, scheduler, codecIn, codecOut>>

\* download.py 64-71: the placeholder download returns the path, fetching nothing
Download(i) ==
    LET o == Op(i) IN
    /\ o.pc = "download"
    /\ Scheduled(i)
    /\ SetOp(i, [o EXCEPT !.pc = "verify"])
    /\ UNCHANGED <<archives, scratch, installed_modules, clock, faults, scheduler, codecIn, codecOut>>

\* faulty variant of _verify_module: a file that is no tarball is rejected
_verify_moduleChecksTar(archive) ==
    IF ~archive.exists THEN "raised"
    ELSE IF archive.ok THEN "True" ELSE "False"

\* download.py 73-81, 144-150: the hash opens and reads the file (a missing file
\* raises), the computed hash is printed and the result is always True
_verify_module(archive) ==
    IF ~archive.exists THEN "raised" ELSE "True"

\* download.py 44-47: verification, and the return of False when it is negative
Verify(i) ==
    LET o == Op(i)
        v == _verify_module(archives[o.name])
    IN
    /\ o.pc = "verify"
    /\ Scheduled(i)
    /\ IF v = "True"
         THEN SetOp(i, [o EXCEPT !.pc = "mkdir", !.verified = v])
         ELSE SetOp(i, [o EXCEPT !.pc = "done", !.result = v, !.verified = v,
                                 !.scratchAtReturn = scratch[o.name].exists])
    /\ UNCHANGED <<archives, scratch, installed_modules, clock, faults, scheduler, codecIn, codecOut>>

(***************************************************************************)
(* loader/download.py: _install_module                                     *)
(***************************************************************************)
\* download.py 116-118: the handler prints and returns False
InstallFailed(o, dir) ==
    [o EXCEPT !.pc = "finish", !.install_success = FALSE, !.scratchAtReturn = dir.exists]

\* download.py 86-87
InstallMkdir(i) ==
    LET o == Op(i) IN
    /\ o.pc = "mkdir"
    /\ Scheduled(i)
    /\ scratch' = [scratch EXCEPT ![o.name] = Mkdir(@)]
    /\ SetOp(i, [o EXCEPT !.pc = "extract", !.madeScratch = TRUE])
    /\ UNCHANGED <<archives, installed_modules, clock, faults, scheduler, codecIn, codecOut>>

\* tar.extractall: every member of the archive is written over the directory
Extracted(dir, archive) ==
    IF Present(archive.files) = {} THEN dir
    ELSE [exists |-> TRUE,
          files |-> [f \in FileNames |->
                       IF archive.files[f] # Absent THEN archive.files[f] ELSE dir.files[f]]]

\* download.py 91-92
Extract(i) ==
    LET o == Op(i)
        a == archives[o.name]
        d == Extracted(scratch[o.name], a)
    IN
    /\ o.pc = "extract"
    /\ Scheduled(i)
    /\ IF ~a.exists
         THEN /\ UNCHANGED scratch
              /\ SetOp(i, InstallFailed(o, scratch[o.name]))
         ELSE /\ scratch' = [scratch EXCEPT ![o.name] = d]
              /\ IF a.ok
                   THEN SetOp(i, [o EXCEPT !.pc = "manifest", !.extracted = TRUE,
                                           !.archiveHadManifest = (a.files["manifest.json"] # Absent)])
                   ELSE SetOp(i, InstallFailed(o, d))
    /\ UNCHANGED <<archives, installed_modules, clock, faults, scheduler, codecIn, codecOut>>

\* open + json.load of a file of the scratch directory
ReadJson(dir, f, kind) == dir.exists /\ dir.files[f].kind = kind

\* download.py 95-96
ReadManifest(i) ==
    LET o == Op(i)
        d == scratch[o.name]
    IN
    /\ o.pc = "manifest"
    /\ Scheduled(i)
    /\ IF ReadJson(d, "manifest.json", "manifest")
         THEN SetOp(i, [o EXCEPT !.pc = "metadata", !.manifest = d.files["manifest.json"]])
         ELSE SetOp(i, InstallFailed(o, d))
    /\ UNCHANGED <<archives, scratch, installed_modules, clock, faults, scheduler, codecIn, codecOut>>

\* download.py 102-104: the three keys the prints read
MetadataPrintable(m) == {"name", "description", "skills_provided"} \subseteq DOMAIN m

\* download.py 99-107: metadata read and printed, then manifest["install_steps"]
ReadMetadata(i) ==
    LET o == Op(i)
        d == scratch[o.name]
    IN
    /\ o.pc = "metadata"
    /\ Scheduled(i)
    /\ IF /\ ReadJson(d, "metadata.json", "metadata")
          /\ MetadataPrintable(d.files["metadata.json"])
          /\ "install_steps" \in DOMAIN o.manifest
         THEN SetOp(i, [o EXCEPT !.pc = "steps", !.idx = 1, !.reachedSteps = TRUE])
         ELSE SetOp(i, InstallFailed(o, d))
    /\ UNCHANGED <<archives, scratch, installed_modules, clock, faults, scheduler, codecIn, codecOut>>

\* pickle.load of a file of the scratch directory, then embeddings_data['chunks']
LoadsEmbeddings(dir, step) ==
    /\ "file" \in DOMAIN step
    /\ step.file \in FileNames
    /\ dir.exists
    /\ dir.files[step.file].kind = "embeddings"

\* faulty variant of StepOutcome: an action outside the three known ones raises
StepOutcomeStrict(step, dir) ==
    IF "action" \notin DOMAIN step THEN "failed"
    ELSE CASE step.action = "load_embeddings" ->
                 IF LoadsEmbeddings(dir, step) THEN "done" ELSE "failed"
           [] step.action = "register_metadata" -> "done"
           [] step.action = "verify_integrity" -> "done"
           [] OTHER -> "failed"

\* download.py 120-142: _execute_install_step; step["action"] raises KeyError when absent,
\* an action outside the if/elif chain falls through
StepOutcome(step, dir) ==
    IF "action" \notin DOMAIN step THEN "failed"
    ELSE CASE step.action = "load_embeddings" ->
                 IF LoadsEmbeddings(dir, step) THEN "done" ELSE "failed"
           [] step.action = "register_metadata" -> "done"
           [] step.action = "verify_integrity" -> "done"
           [] OTHER -> "skipped"

\* faulty variant of AfterStep: a failing step is logged and the loop goes on
AfterStepContinue(o, outcome, dir) ==
    [o EXCEPT !.idx = @ + 1, !.log = Append(@, [step |-> o.idx, outcome |-> outcome])]

\* download.py 107-108, 116-118: the loop advances, or the exception leaves it
AfterStep(o, outcome, dir) ==
    LET logged == [o EXCEPT !.log = Append(@, [step |-> o.idx, outcome |-> outcome])]
    IN  IF outcome = "failed"
          THEN InstallFailed(logged, dir)
          ELSE [logged EXCEPT !.idx = @ + 1]

\* download.py 131: the chunk count the load step reports
ChunksLoaded(o, step, dir, outcome) ==
    IF outcome = "done" /\ step.action = "load_embeddings"
      THEN Len(dir.files[step.file].chunks)
      ELSE o.loaded

\* download.py 107-108: one iteration of the loop over manifest["install_steps"]
ExecuteInstallStep(i) ==
    LET o == Op(i)
        d == scratch[o.name]
        steps == o.manifest.install_steps
    IN
    /\ o.pc = "steps"
    /\ Scheduled(i)
    /\ o.idx <= Len(steps)
    /\ LET step == steps[o.idx]
           outcome == StepOutcome(step, d)
       IN  SetOp(i, AfterStep([o EXCEPT !.loaded = ChunksLoaded(o, step, d, outcome)], outcome, d))
    /\ UNCHANGED <<archives, scratch, installed_modules, clock, faults, scheduler, codecIn, codecOut>>

\* download.py 110-114: rmtree raises when the directory is gone
Cleanup(i) ==
    LET o == Op(i)
        d == scratch[o.name]
    IN
    /\ o.pc = "steps"
    /\ Scheduled(i)
    /\ o.idx > Len(o.manifest.install_steps)
    /\ IF d.exists
         THEN /\ scratch' = [scratch EXCEPT ![o.name] = Rmtree(d)]
              /\ SetOp(i, [o EXCEPT !.pc = "finish", !.install_success = TRUE,
                                    !.scratchAtReturn = FALSE])
         ELSE /\ UNCHANGED scratch
              /\ SetOp(i, InstallFailed(o, d))
    /\ UNCHANGED <<archives, installed_modules, clock, faults, scheduler, codecIn, codecOut>>

\* faulty variant of Registered: the record is written whatever the install returned
RegisteredAlways(reg, o, t) ==
    [n \in DOMAIN reg \cup {o.name} |->
        IF n = o.name THEN [path |-> o.name, installed_at |-> t] ELSE reg[n]]

\* faulty variant of Registered: an existing record is kept (setdefault)
RegisteredFirstWins(reg, o, t) ==
    IF o.install_success /\ o.name \notin DOMAIN reg
      THEN [n \in DOMAIN reg \cup {o.name} |->
              IF n = o.name THEN [path |-> o.name, installed_at |-> t] ELSE reg[n]]
      ELSE reg

\* download.py 53-59: installed_modules[skill_name] = {...} on success only
Registered(reg, o, t) ==
    IF o.install_success
      THEN [n \in DOMAIN reg \cup {o.name} |->
              IF n = o.name THEN [path |-> o.name, installed_at |-> t] ELSE reg[n]]
      ELSE reg

\* download.py 53-62
Finish(i) ==
    LET o == Op(i) IN
    /\ o.pc = "finish"
    /\ Scheduled(i)
    /\ installed_modules' = Registered(installed_modules, o, clock)
    /\ SetOp(i, [o EXCEPT !.pc = "done",
                          !.result = IF o.install_success THEN "True" ELSE "False"])
    /\ UNCHANGED <<archives, scratch, clock, faults, scheduler, codecIn, codecOut>>

\* download.py 152-154
list_installed_modules == installed_modules

(***************************************************************************)
(* packager/create_module.py                                               *)
(***************************************************************************)
\* str.lower on one character (the letters the names of the model are written in)
LowerChar(c) ==
    CASE c = "M" -> "m" [] c = "T" -> "t" [] c = "S" -> "s" [] c = "O" -> "o" [] OTHER -> c

\* str.lower
RECURSIVE Lower(_)
Lower(s) ==
    IF Len(s) = 0 THEN ""
    ELSE LowerChar(SubSeq(s, 1, 1)) \o Lower(SubSeq(s, 2, Len(s)))

\* str.replace(old, new) for one-character old and new
RECURSIVE Replace(_, _, _)
Replace(s, old, new) ==
    IF Len(s) = 0 THEN ""
    ELSE (IF SubSeq(s, 1, 1) = old THEN new ELSE SubSeq(s, 1, 1))
            \o Replace(SubSeq(s, 2, Len(s)), old, new)

\* create_module.py 110, 114: name.lower().replace(' ', '_')
Slug(s) == Replace(Lower(s), " ", "_")

\* faulty variant of SkillOf: the tool tag is slugged as the other two are
SkillOfAllSlugged(entity) ==
    LET entity_type == Get(entity, "entityType", "")
        name == Get(entity, "name", "")
    IN  CASE entity_type = "Active_Project" -> {"project_" \o Slug(name)}
          [] entity_type = "Tool_Reference" -> {"tool_" \o Slug(name)}
          [] entity_type = "System_Protocol" -> {"protocol_" \o Slug(name)}
          [] OTHER -> {}

\* create_module.py 105-114: the tag one entity contributes, if any
SkillOf(entity) ==
    LET entity_type == Get(entity, "entityType", "")
        name == Get(entity, "name", "")
    IN  CASE entity_type = "Active_Project" -> {"project_" \o Slug(name)}
          [] entity_type = "Tool_Reference" -> {"tool_" \o Lower(name)}
          [] entity_type = "System_Protocol" -> {"protocol_" \o Slug(name)}
          [] OTHER -> {}

\* create_module.py 101-116
_extract_skills(entities) == UNION {SkillOf(entities[k]) : k \in DOMAIN entities}

RECURSIVE SumObservations(_)
SumObservations(entities) ==
    IF entities = <<>> THEN 0
    ELSE Len(Get(Head(entities), "observations", <<>>)) + SumObservations(Tail(entities))

\* create_module.py 35-45 (the size estimate is left out)
ModuleMetadata(entities, module_name, now) ==
    [kind |-> "metadata", name |-> module_name, description |-> "d", version |-> "1.0.0",
     created |-> now, type |-> "memory_export", entity_count |-> Len(entities),
     skills_provided |-> _extract_skills(entities), prerequisites |-> <<>>]

\* create_module.py 58-62
SourcesManifest(entities) ==
    [kind |-> "sources",
     memory_entities |-> [k \in DOMAIN entities |-> Get(entities[k], "name", "unknown")],
     total_observations |-> SumObservations(entities)]

\* the entity lists the packager is called with
PackInputs ==
    { <<>>,
      <<[name |-> "Sample", entityType |-> "Tool_Reference", observations |-> <<"x", "yy">>],
        [name |-> "Other", observations |-> <<"x">>]>> }

\* what a write step leaves when it fails: nothing touched, or a truncated file
Faults == {"none", "open", "write"}

\* a failure is one more of the failures of the run
Fails(fault) ==
    /\ fault # "none" => faults < MaxFaults
    /\ faults' = IF fault = "none" THEN faults ELSE faults + 1

\* faulty variant of WriteFile: a file that is there already is kept (mode "x")
WriteFileExclusive(dir, f, content) ==
    IF dir.files[f] # Absent THEN dir ELSE [dir EXCEPT !.files[f] = content]

\* open(path, "w") and dump: the file holds the new content, whatever it held
WriteFile(dir, f, content) == [dir EXCEPT !.files[f] = content]

Raised(o, dir) == [o EXCEPT !.pc = "done", !.result = "raised", !.scratchAtReturn = dir.exists]

\* create_module.py 22-28: the call
CreateFromMemory(i, n, es) ==
    /\ FirstFree(i)
    /\ Scheduled(i)
    /\ clock < MaxClock
    /\ clock' = clock + 1
    /\ SetOp(i, [IdleOp EXCEPT !.kind = "package", !.name = n, !.entities = es,
                               !.pc = "p_mkdir", !.regBefore = installed_modules])
    /\ UNCHANGED <<archives, scratch, installed_modules, faults, scheduler, codecIn, codecOut>>

\* create_module.py 31-32
PackMkdir(i) ==
    LET o == Op(i) IN
    /\ o.pc = "p_mkdir"
    /\ Scheduled(i)
    /\ scratch' = [scratch EXCEPT ![o.name] = Mkdir(@)]
    /\ SetOp(i, [o EXCEPT !.pc = "p_metadata", !.madeScratch = TRUE])
    /\ UNCHANGED <<archives, installed_modules, clock, faults, scheduler, codecIn, codecOut>>

\* with open(module_dir / f, "w") ...: dump(content): no handler, no cleanup on a failure
PackWrite(i, at, f, content, next) ==
    LET o == Op(i)
        d == scratch[o.name]
    IN
    /\ o.pc = at
    /\ Scheduled(i)
    /\ \E fault \in Faults :
         /\ Fails(fault)
         /\ LET after == CASE ~d.exists -> d
                            [] fault = "none" -> WriteFile(d, f, content)
                            [] fault = "write" -> WriteFile(d, f, Bad)
                            [] OTHER -> d
             IN  /\ scratch' = [scratch EXCEPT ![o.name] = after]
                 /\ IF d.exists /\ fault = "none"
                      THEN SetOp(i, [o EXCEPT !.pc = next])
                      ELSE SetOp(i, Raised(o, after))
    /\ UNCHANGED <<archives, installed_modules, clock, scheduler, codecIn, codecOut>>

\* create_module.py 35-48
WriteMetadata(i) ==
    PackWrite(i, "p_metadata", "metadata.json",
              ModuleMetadata(Op(i).entities, Op(i).name, clock), "p_embeddings")

\* create_module.py 52-55
WriteEmbeddings(i) ==
    PackWrite(i, "p_embeddings", "embeddings.pkl",
              _create_embeddings_data(Op(i).entities), "p_sources")

\* create_module.py 58-65
WriteSources(i) ==
    PackWrite(i, "p_sources", "sources.json", SourcesManifest(Op(i).entities), "p_manifest")

\* create_module.py 68-81
WriteManifest(i) ==
    PackWrite(i, "p_manifest", "manifest.json", PackagerManifest, "p_tar")

\* create_module.py 87-89: every file module_dir.iterdir() yields goes into the archive
Packed(dir) == [exists |-> TRUE, ok |-> TRUE, files |-> dir.files]

\* the archive a writer leaves that stopped inside a member, after the members S:
\* extraction yields S and then fails
PartlyPacked(dir, S) ==
    [exists |-> TRUE, ok |-> FALSE,
     files |-> [f \in FileNames |-> IF f \in S THEN dir.files[f] ELSE Absent]]

\* create_module.py 85-89
PackTar(i) ==
    LET o == Op(i)
        d == scratch[o.name]
    IN
    /\ o.pc = "p_tar"
    /\ Scheduled(i)
    /\ \E fault \in Faults :
         /\ Fails(fault)
         /\ IF fault = "open"
               THEN /\ UNCHANGED archives
                    /\ SetOp(i, Raised(o, d))
               ELSE IF d.exists /\ fault = "none"
                 THEN /\ archives' = [archives EXCEPT ![o.name] = Packed(d)]
                      /\ SetOp(i, [o EXCEPT !.pc = "p_hash", !.archived = Present(d.files),
                                            !.destWritten = TRUE,
                                            !.replaced = archives[o.name]])
                 ELSE /\ \E S \in SUBSET Present(d.files) :
                           /\ d.exists => S # Present(d.files)
                           /\ archives' = [archives EXCEPT ![o.name] = PartlyPacked(d, S)]
                      /\ SetOp(i, Raised([o EXCEPT !.destWritten = TRUE], d))
    /\ UNCHANGED <<scratch, installed_modules, clock, scheduler, codecIn, codecOut>>

\* create_module.py 92-93, 159-165
PackHash(i) ==
    LET o == Op(i)
        d == scratch[o.name]
    IN
    /\ o.pc = "p_hash"
    /\ Scheduled(i)
    /\ \E fault \in {"none", "open"} :
         /\ Fails(fault)
         /\ IF archives[o.name].exists /\ fault = "none"
               THEN SetOp(i, [o EXCEPT !.pc = "p_cleanup"])
               ELSE SetOp(i, Raised(o, d))
    /\ UNCHANGED <<archives, scratch, installed_modules, clock, scheduler, codecIn, codecOut>>

\* create_module.py 96-99
PackCleanup(i) ==
    LET o == Op(i)
        d == scratch[o.name]
    IN
    /\ o.pc = "p_cleanup"
    /\ Scheduled(i)
    /\ IF d.exists
         THEN /\ scratch' = [scratch EXCEPT ![o.name] = Rmtree(d)]
              /\ SetOp(i, [o EXCEPT !.pc = "done", !.result = "path",
                                    !.scratchAtReturn = FALSE])
         ELSE /\ UNCHANGED scratch
              /\ SetOp(i, Raised(o, d))
    /\ UNCHANGED <<archives, installed_modules, clock, faults, scheduler, codecIn, codecOut>>

(***************************************************************************)
(* The codec on its own                                                    *)
(***************************************************************************)
NotEncoded == [kind |-> "none"]

\* create_module.py 124-157 applied to the chosen entity list
Encode ==
    /\ codecOut = NotEncoded
    /\ codecOut' = _create_embeddings_data(codecIn)
    /\ UNCHANGED <<archives, scratch, installed_modules, clock, ops, scheduler, faults, codecIn>>

(***************************************************************************)
(* The skill derivation on its own                                         *)
(***************************************************************************)
SkillNames == {"My Tool", "my_tool", "Sample"}
SkillTypes == {"Active_Project", "Tool_Reference", "System_Protocol", "Activity_Log"}

\* entities as _extract_skills reads them: name and entityType, either may be missing
SkillEntities ==
    {[name |-> n, entityType |-> t] : n \in SkillNames, t \in SkillTypes}
        \cup {[name |-> n] : n \in SkillNames}
        \cup {[entityType |-> t] : t \in SkillTypes}

\* create_module.py 101-116 applied to the chosen entity list
ExtractSkills ==
    /\ codecOut = NotEncoded
    /\ codecOut' = [kind |-> "skills", skills_provided |-> _extract_skills(codecIn)]
    /\ UNCHANGED <<archives, scratch, installed_modules, clock, ops, scheduler, faults, codecIn>>

(***************************************************************************)
(* Specifications                                                          *)
(***************************************************************************)
\* a run starts with at most one file <name>.mkm in the working directory; the
\* two names are interchangeable, so the file, when there is one, is a.mkm
Start ==
    /\ archives \in [Names -> ArchiveInputs]
    /\ \A n \in Names : archives[n].exists => n = "a"
    /\ scratch = [n \in Names |-> NoDir]
    /\ installed_modules = <<>>
    /\ clock = 0
    /\ faults = 0
    /\ ops = [i \in Ops |-> IdleOp]
    /\ codecIn = <<>>
    /\ codecOut = NotEncoded

Step(i) ==
    \/ \E n \in Names, u \in BOOLEAN : DownloadSkill(i, n, u)
    \/ Search(i)
    \/ Download(i)
    \/ Verify(i)
    \/ InstallMkdir(i)
    \/ Extract(i)
    \/ ReadManifest(i)
    \/ ReadMetadata(i)
    \/ ExecuteInstallStep(i)
    \/ Cleanup(i)
    \/ Finish(i)
    \/ \E n \in Names, es \in PackInputs : CreateFromMemory(i, n, es)
    \/ PackMkdir(i)
    \/ WriteMetadata(i)
    \/ WriteEmbeddings(i)
    \/ WriteSources(i)
    \/ WriteManifest(i)
    \/ PackTar(i)
    \/ PackHash(i)
    \/ PackCleanup(i)

Next == \E i \in Ops : Step(i)

\* one event loop: an operation runs until it awaits or returns
Init == Start /\ scheduler = "asyncio"

Spec == Init /\ [][Next]_vars

\* operations of separate threads or processes over the same working directory
InitConc == Start /\ scheduler = "threads"

SpecConc == InitConc /\ [][Next]_vars

InitCodec ==
    /\ archives = [n \in Names |-> NoArchive]
    /\ scratch = [n \in Names |-> NoDir]
    /\ installed_modules = <<>>
    /\ clock = 0
    /\ faults = 0
    /\ ops = [i \in Ops |-> IdleOp]
    /\ scheduler = "asyncio"
    /\ codecIn \in SeqsUpTo(Entities, MaxEntities)
    /\ codecOut = NotEncoded

NextCodec == Encode

SpecCodec == InitCodec /\ [][NextCodec]_vars

InitSkills ==
    /\ archives = [n \in Names |-> NoArchive]
    /\ scratch = [n \in Names |-> NoDir]
    /\ installed_modules = <<>>
    /\ clock = 0
    /\ faults = 0
    /\ ops = [i \in Ops |-> IdleOp]
    /\ scheduler = "asyncio"
    /\ codecIn \in SeqsUpTo(SkillEntities, MaxEntities)
    /\ codecOut = NotEncoded

NextSkills == ExtractSkills

SpecSkills == InitSkills /\ [][NextSkills]_vars

(***************************************************************************)
(* Properties                                                              *)
(***************************************************************************)
Installs == {i \in Ops : ops[i].kind = "install"}
Packagings == {i \in Ops : ops[i].kind = "package"}
Returned(i) == ops[i].pc = "done"

KnownActions == {"load_embeddings", "register_metadata", "verify_integrity"}
Steps(i) == ops[i].manifest.install_steps
FailedAt(i) == {k \in DOMAIN ops[i].log : ops[i].log[k].outcome = "failed"}

\* C1: every install that made its scratch directory temp_<skill_name> has
\* returned with that directory gone, whatever the exit path.
C1_InstallScratchRemoved ==
    \A i \in Installs :
        Returned(i) /\ ops[i].madeScratch => ~ops[i].scratchAtReturn

\* C2: the registry changes only in the step in which a download_skill call
\* returns True after running every install step of its manifest, and then only
\* by the record of that call's name; a call that returns False or raises
\* therefore leaves installed_modules as it was.
C2_OnlyCompleteInstallsRegistered ==
    [][ installed_modules' # installed_modules =>
          \E i \in Ops :
             /\ ops[i].pc # "done" /\ ops'[i].pc = "done"
             /\ ops'[i].kind = "install"
             /\ ops'[i].result = "True"
             /\ ops'[i].reachedSteps
             /\ Len(ops'[i].log) = Len(ops'[i].manifest.install_steps)
             /\ \A k \in DOMAIN ops'[i].log :
                   ops'[i].log[k].step = k /\ ops'[i].log[k].outcome # "failed"
             /\ DOMAIN installed_modules' = DOMAIN installed_modules \cup {ops'[i].name}
             /\ \A n \in DOMAIN installed_modules :
                   n # ops'[i].name => installed_modules'[n] = installed_modules[n] ]_vars

\* an install that stopped at a failing step after an earlier step ran, and whose
\* name is not in the registry
C2_Witness ==
    \E i \in Installs :
        /\ Returned(i) /\ ops[i].result = "False"
        /\ Len(ops[i].log) >= 2 /\ FailedAt(i) # {}
        /\ ops[i].name \notin DOMAIN installed_modules
        /\ installed_modules = ops[i].regBefore

\* C3: the install steps run one at a time in manifest order: the k-th step
\* run is the k-th step of the manifest, nothing runs after a failing step, and
\* an install with a failing step returns False.
C3_StepsInOrderAbortOnFailure ==
    \A i \in Installs :
        /\ \A k \in DOMAIN ops[i].log : ops[i].log[k].step = k
        /\ \A k \in FailedAt(i) : k = Len(ops[i].log)
        /\ ops[i].pc = "steps" => ops[i].idx = Len(ops[i].log) + 1
        /\ Returned(i) /\ FailedAt(i) # {} => ops[i].result = "False"

\* manifest [A, B, C] where only B fails: A ran, C did not, the install failed
C3_Witness ==
    \E i \in Installs :
        /\ Returned(i) /\ ops[i].reachedSteps
        /\ Len(Steps(i)) = 3
        /\ ops[i].log = <<[step |-> 1, outcome |-> "done"], [step |-> 2, outcome |-> "failed"]>>
        /\ ops[i].result = "False"

\* C4: an install whose archive holds no manifest.json fails, runs no step,
\* leaves the registry as it was and removes the scratch directory.
C4_MissingManifestFails ==
    \A i \in Installs :
        Returned(i) /\ ops[i].extracted /\ ~ops[i].archiveHadManifest =>
            /\ ops[i].result = "False"
            /\ ops[i].log = <<>>
            /\ installed_modules = ops[i].regBefore
            /\ ~ops[i].scratchAtReturn

\* C5: a step whose action is none of the three known ones is skipped, never
\* fails; when no step of the manifest fails, an install whose manifest holds
\* such a step has run every step in order, returns True and is recorded.
C5_UnknownActionSkipped ==
    \A i \in Installs :
        /\ \A k \in DOMAIN ops[i].log :
              ("action" \in DOMAIN Steps(i)[k] /\ Steps(i)[k].action \notin KnownActions)
                  => ops[i].log[k].outcome = "skipped"
        /\ ( /\ Returned(i) /\ ops[i].reachedSteps
             /\ \E k \in DOMAIN Steps(i) :
                   "action" \in DOMAIN Steps(i)[k] /\ Steps(i)[k].action \notin KnownActions
             /\ FailedAt(i) = {} )
           => /\ Len(ops[i].log) = Len(Steps(i))
              /\ \A k \in DOMAIN ops[i].log : ops[i].log[k].step = k
              /\ ops[i].result = "True"
              /\ ops[i].name \in DOMAIN installed_modules

\* register_metadata, unknown action, verify_integrity: all three visited, success
C5_Witness ==
    \E i \in Installs :
        /\ Returned(i) /\ ops[i].result = "True"
        /\ [k \in DOMAIN ops[i].log |-> ops[i].log[k].outcome] = <<"done", "skipped", "done">>
        /\ ops[i].name \in DOMAIN installed_modules

\* C6: a download_skill call that finds no archive file returns False, with or
\* without a source_url; it never raises.
C6_NotFoundReturnsFalse ==
    \A i \in Installs :
        Returned(i) /\ ~ops[i].madeScratch =>
            /\ ops[i].result = "False"
            /\ ops[i].log = <<>>
            /\ installed_modules = ops[i].regBefore

\* C7: every create_from_memory call that made its scratch directory
\* temp_<module_name> has ended, by return or by exception, with it gone.
C7_PackagerScratchRemoved ==
    \A i \in Packagings :
        Returned(i) /\ ops[i].madeScratch => ~ops[i].scratchAtReturn

\* C8: every archive create_from_memory returns holds exactly the four entries
\* metadata.json, embeddings.pkl, sources.json and manifest.json.
C8_ArchiveHasFourEntries ==
    \A i \in Packagings :
        Returned(i) /\ ops[i].result = "path" => ops[i].archived = PackagerEntries

\* an operation between making its scratch directory and leaving it
HoldsScratch(i) == ops[i].madeScratch /\ ops[i].pc \notin {"finish", "done"}

\* C9: two operations in flight at the same time never work in the same
\* scratch directory.
C9_ScratchIsolation ==
    \A i, j \in Ops :
        i # j /\ HoldsScratch(i) /\ HoldsScratch(j) => ops[i].name # ops[j].name

\* the owner of every observation, in entity-then-observation order
RECURSIVE Owners(_)
Owners(entities) ==
    IF entities = <<>> THEN <<>>
    ELSE LET e == Head(entities)
             n == IF "observations" \in DOMAIN e THEN Len(e.observations) ELSE 0
         IN  [k \in 1..n |-> [name |-> IF "name" \in DOMAIN e THEN e.name ELSE "unknown",
                              type |-> IF "entityType" \in DOMAIN e THEN e.entityType ELSE "unknown"]]
             \o Owners(Tail(entities))

Encoded == codecOut # NotEncoded

\* C10: for an entity list with M observations in all, the codec returns M
\* chunks and M metadata records; the i-th chunk has id i (from 0), the i-th
\* metadata record has the same chunk_id, and the chunk carries the name and
\* type of the entity owning the i-th observation (a missing key reads "unknown").
C10_CodecShape ==
    Encoded =>
        LET owners == Owners(codecIn)
            M == Len(owners)
        IN  /\ Len(codecOut.chunks) = M
            /\ Len(codecOut.metadata) = M
            /\ \A k \in 1..M :
                  /\ codecOut.chunks[k].id = k - 1
                  /\ codecOut.metadata[k].chunk_id = codecOut.chunks[k].id
                  /\ codecOut.chunks[k].entity = owners[k].name
                  /\ codecOut.chunks[k].type = owners[k].type

\* two entities of different names, the first with two observations, encoded
C10_Witness ==
    /\ Encoded
    /\ Len(codecIn) = 2
    /\ Len(codecOut.chunks) >= 3
    /\ codecOut.chunks[1].entity # codecOut.chunks[3].entity
    /\ codecOut.chunks[3].id = 2

NameOf(e) == IF "name" \in DOMAIN e THEN e.name ELSE "unknown"
TypeOf(e) == IF "entityType" \in DOMAIN e THEN e.entityType ELSE "unknown"

\* C11: entity_map has exactly one key per entity name of the input, entities
\* without observations included, and a name maps to the type of the last
\* entity of that name (a missing key reads "unknown").
C11_EntityMapCoverage ==
    Encoded =>
        /\ DOMAIN codecOut.entity_map = {NameOf(codecIn[k]) : k \in DOMAIN codecIn}
        /\ \A k \in DOMAIN codecIn :
              (\A j \in DOMAIN codecIn : j > k => NameOf(codecIn[j]) # NameOf(codecIn[k]))
                  => codecOut.entity_map[NameOf(codecIn[k])] = TypeOf(codecIn[k])

\* one name twice with two types, the last entity having no observations
C11_Witness ==
    /\ Encoded
    /\ Len(codecIn) = 2
    /\ NameOf(codecIn[1]) = NameOf(codecIn[2])
    /\ TypeOf(codecIn[1]) # TypeOf(codecIn[2])
    /\ "observations" \in DOMAIN codecIn[1] /\ Len(codecIn[1].observations) = 2
    /\ "observations" \notin DOMAIN codecIn[2]
    /\ codecOut.entity_map[NameOf(codecIn[2])] = TypeOf(codecIn[2])
    /\ codecOut.chunks[1].type = TypeOf(codecIn[1])

\* C12: a create_from_memory call that ends by a failure has written nothing
\* to the destination path <module_name>.mkm.
C12_PackagingAtomicAtDestination ==
    \A i \in Packagings :
        Returned(i) /\ ops[i].result = "raised" => ~ops[i].destWritten

C14_VerificationPrecedesExtraction ==
    [][ \A i \in Ops :
          /\ ops'[i].kind = "install" =>
                /\ ops'[i].verified # "False"
                /\ (ops'[i].pc = "extract" \/ ops'[i].extracted) => ops'[i].verified = "True"
          /\ (ops[i].pc = "verify" /\ ops'[i].pc # "verify" /\ archives[ops[i].name].exists)
                => ops'[i].verified = "True" /\ ops'[i].pc = "mkdir"
          /\ ( /\ ops[i].pc = "steps" /\ ops[i].idx <= Len(Steps(i))
               /\ Len(ops'[i].log) = ops[i].idx
               /\ Get(Steps(i)[ops[i].idx], "action", "") = "verify_integrity" )
                => /\ ops'[i].log[ops[i].idx].outcome = "done"
                   /\ ops'[i].pc = "steps" /\ ops'[i].idx = ops[i].idx + 1
                   /\ ops'[i].loaded = ops[i].loaded
                   /\ UNCHANGED <<archives, scratch, installed_modules>> ]_vars

\* a verified install ran a verify_integrity step and returned True
C14_Witness ==
    \E i \in Installs :
        /\ Returned(i) /\ ops[i].result = "True" /\ ops[i].verified = "True"
        /\ ops[i].extracted
        /\ \E k \in DOMAIN ops[i].log :
              /\ Steps(i)[k].action = "verify_integrity"
              /\ ops[i].log[k].outcome = "done"

SansCreated(m) == [k \in DOMAIN m \ {"created"} |-> m[k]]
SameModule(archive, entities, module_name) ==
    /\ archive.ok
    /\ SansCreated(archive.files["metadata.json"]) =
          SansCreated(ModuleMetadata(entities, module_name, 0))

\* C15: the archive a packaging writes holds the metadata (but for created) and
\* the embeddings payload that its entity list and module name determine,
\* whatever lay in the scratch directory or at the destination before; written
\* over an archive of the same module, it leaves both entries as they were.
C15_IdempotentPackaging ==
    [][ \A i \in Ops :
          (ops[i].pc = "p_tar" /\ ops'[i].pc = "p_hash") =>
             LET n == ops[i].name
                 es == ops[i].entities
                 old == archives[n]
                 new == archives'[n]
             IN  /\ SameModule(new, es, n)
                 /\ new.files["embeddings.pkl"] = _create_embeddings_data(es)
                 /\ SameModule(old, es, n) =>
                       /\ new.files["embeddings.pkl"] = old.files["embeddings.pkl"]
                       /\ SansCreated(new.files["metadata.json"]) =
                             SansCreated(old.files["metadata.json"]) ]_vars

\* a second packaging of a module returned, its archive written at a later time
\* over the archive of the first
C15_Witness ==
    \E i \in Packagings :
        /\ Returned(i) /\ ops[i].result = "path"
        /\ ops[i].entities # <<>>
        /\ SameModule(ops[i].replaced, ops[i].entities, ops[i].name)
        /\ SameModule(archives[ops[i].name], ops[i].entities, ops[i].name)
        /\ archives[ops[i].name].files["metadata.json"].created #
              ops[i].replaced.files["metadata.json"].created
        /\ archives[ops[i].name].files["embeddings.pkl"] =
              ops[i].replaced.files["embeddings.pkl"]

SkillPrefix(entity_type) ==
    CASE entity_type = "Active_Project" -> "project_"
      [] entity_type = "Tool_Reference" -> "tool_"
      [] entity_type = "System_Protocol" -> "protocol_"
      [] OTHER -> ""

\* tag is the prefix of the entity's type followed by the entity's name, letter
\* by letter in lower case, a space being "_" unless the entity is a tool
IsTagOf(tag, entity) ==
    LET entity_type == Get(entity, "entityType", "")
        name == Get(entity, "name", "")
        prefix == SkillPrefix(entity_type)
        body == SubSeq(tag, Len(prefix) + 1, Len(tag))
    IN  /\ prefix # ""
        /\ Len(tag) = Len(prefix) + Len(name)
        /\ SubSeq(tag, 1, Len(prefix)) = prefix
        /\ \A p \in 1..Len(name) :
              LET c == SubSeq(name, p, p)
                  b == SubSeq(body, p, p)
              IN  IF c = " " /\ entity_type # "Tool_Reference"
                    THEN b = "_"
                    ELSE b = LowerChar(c)

SkillsExtracted == codecOut.kind = "skills"

\* C16: skills_provided holds a tag for every Active_Project, Tool_Reference and
\* System_Protocol entity (project_<slug>, tool_<lowercase>, protocol_<slug>),
\* and holds nothing else: an entity of another type gives no tag.
C16_SkillDerivation ==
    SkillsExtracted =>
        /\ \A k \in DOMAIN codecIn :
              SkillPrefix(Get(codecIn[k], "entityType", "")) # ""
                  => \E t \in codecOut.skills_provided : IsTagOf(t, codecIn[k])
        /\ \A t \in codecOut.skills_provided :
              \E k \in DOMAIN codecIn : IsTagOf(t, codecIn[k])

\* a project and a tool of one name with a space in it give two different tags
C16_Witness ==
    /\ SkillsExtracted /\ Len(codecIn) = 2
    /\ codecIn[1] = [name |-> "My Tool", entityType |-> "Active_Project"]
    /\ codecIn[2] = [name |-> "My Tool", entityType |-> "Tool_Reference"]
    /\ codecOut.skills_provided = {"project_my_tool", "tool_my tool"}

\* C18: when an install is about to extract, its scratch directory holds no
\* file, and after the extraction every file of the scratch directory the
\* install reads is the one of the archive being installed.
C18_FreshScratchPerInstall ==
    \A i \in Installs :
        /\ ops[i].pc = "extract" => Present(scratch[ops[i].name].files) = {}
        /\ (ops[i].extracted /\ ops[i].pc \in {"manifest", "metadata", "steps"})
              => \A f \in FileNames :
                    scratch[ops[i].name].files[f] = archives[ops[i].name].files[f]

\* the archive create_from_memory(entities, module_name, "d") writes
ProducedFrom(archive, entities, module_name) ==
    /\ SameModule(archive, entities, module_name)
    /\ archive.files["embeddings.pkl"] = _create_embeddings_data(entities)
    /\ archive.files["sources.json"] = SourcesManifest(entities)
    /\ archive.files["manifest.json"] # Absent

RoundTripSteps == <<"load_embeddings", "register_metadata", "verify_integrity">>

\* C19: an install that returns with the archive of its name being one that
\* create_from_memory wrote has run the three steps load_embeddings,
\* register_metadata, verify_integrity in this order, each done, has loaded
\* sources.total_observations chunks, returns True and is in the registry.
C19_RoundTrip ==
    [][ \A i \in Ops :
          ( /\ ops[i].kind = "install" /\ ops[i].pc # "done" /\ ops'[i].pc = "done"
            /\ \E es \in PackInputs : ProducedFrom(archives[ops[i].name], es, ops[i].name) )
          => LET o == ops'[i]
                 a == archives[o.name]
             IN  /\ o.result = "True"
                 /\ Len(o.log) = 3
                 /\ \A k \in 1..3 :
                       /\ o.manifest.install_steps[k].action = RoundTripSteps[k]
                       /\ o.log[k] = [step |-> k, outcome |-> "done"]
                 /\ o.loaded = a.files["sources.json"].total_observations
                 /\ o.name \in DOMAIN installed_modules' ]_vars

\* an install of a packaged module of three observations returned True
C19_Witness ==
    \E i \in Installs :
        /\ Returned(i) /\ ops[i].result = "True"
        /\ \E es \in PackInputs :
              /\ ProducedFrom(archives[ops[i].name], es, ops[i].name)
              /\ SumObservations(es) = 3
        /\ ops[i].loaded = 3
        /\ Len(ops[i].log) = 3
        /\ ops[i].name \in DOMAIN installed_modules

====
